---------------------------- MODULE Spec2Model ----------------------------
(***************************************************************************)
(* Model of docx/image/jpeg.py (the JFIF marker finder, the marker         *)
(* iterator and the header aggregator) and of docx/opc/phys_pkg.py (the    *)
(* physical package readers).                                              *)
(*                                                                         *)
(* Offsets are 0-based as in the code: the byte at offset i of a stream s  *)
(* is s[i+1].  A byte is an integer in 0..255.                             *)
(***************************************************************************)
EXTENDS Integers, Sequences, FiniteSets, TLC

(***************************************************************************)
(* Bounds of the model.                                                    *)
(***************************************************************************)
\* longest byte stream handed to a direct _MarkerFinder.next call
MaxLen == 5
\* most chunks (markers with their segments, entropy bytes) a JPEG stream
\* handed to iter_markers or Jfif.from_stream is put together from
MaxChunks == 3
\* most part elements of an XML package
MaxParts == 2
\* most xmlData children, and most binaryData children, of a part element
MaxChildren == 2

(***************************************************************************)
(* Byte values.                                                            *)
(***************************************************************************)
\* b'\xFF', the marker prefix and padding byte (jpeg.py:184, 197)
FF == 255
\* b'\x00', the stuffed byte following a literal 0xFF (jpeg.py:168)
STUFF == 0
\* JPEG_MARKER_CODE.EOI (jpeg.py:129)
EOI == 217
\* JPEG_MARKER_CODE.SOS (jpeg.py:84)
SOS == 218
\* JPEG_MARKER_CODE.SOI
SOI == 216
\* JPEG_MARKER_CODE.APP0
APP0 == 224
\* JPEG_MARKER_CODE.SOF0
SOF0 == 192
\* JPEG_MARKER_CODE.COM, a marker without a decoder of its own
COM == 254
\* what stream.read(1) gives at the end of the stream: b'' (jpeg.py:207)
EMPTY == -1
\* marker_code = None before the first scan (jpeg.py:128)
None == -2
\* the resolution when the file gives none (jpeg.py:51, 59)
DefaultDpi == 72

\* the bytes the streams of direct _MarkerFinder.next calls are made of
ScanBytes == {STUFF, APP0, FF}

VARIABLES
    stream,         \* the immutable bytes of the underlying stream
    cursor,         \* the stream's current position (seek sets it, read advances it)
    caller,         \* which entry point drives this run
    pc,             \* the control point of the running code
    start,          \* the start argument of _MarkerFinder.next / iter_markers' start
    position,       \* _MarkerFinder.next's local position
    byte_,          \* _MarkerFinder.next's local byte_
    outcome,        \* what the top-level call gave: nothing yet, a return, a raise
    iter_position,  \* history: position at the start of the current outer-loop iteration
    eof_hit,        \* history: a read of this call found the stream at its end
    call_no,        \* 1 for the first call on the buffer, 2 for the repeated one
    first,          \* the outcome of the first call, kept while the second runs
    marker_code,    \* iter_markers' local marker_code
    segment_offset, \* iter_markers' local segment_offset
    marker,         \* the marker iter_markers has just built
    markers,        \* the markers the consumer of iter_markers has collected
    image,          \* the Jfif instance Jfif.from_stream built, if any
    scans,          \* history: number of _MarkerFinder.next calls issued
    finder_reads,   \* history: the set of offsets the marker finder has read
    pkg_file,       \* the argument of PhysPkgReader(pkg_file)
    pkg_pc,         \* how far the construction of the reader has got
    reader,         \* the reader object: its class and its attributes
    pkg_result      \* what the last call on the package reader gave

jpegVars == <<stream, cursor, caller, pc, start, position, byte_, outcome,
              iter_position, eof_hit, call_no, first, marker_code,
              segment_offset, marker, markers, image, scans,
              finder_reads>>

pkgVars == <<pkg_file, pkg_pc, reader, pkg_result>>

vars == <<jpegVars, pkgVars>>

(***************************************************************************)
(* Outcomes of a call.                                                     *)
(***************************************************************************)
\* the error _read_byte raises at the end of the stream (jpeg.py:209); the
\* specification calls it UnexpectedEndOfStream
UnexpectedEndOfStream == "unexpected end of file"

NoOutcome == [kind |-> "none", marker_code |-> None, segment_offset |-> -1,
              error |-> ""]

Returned(code, off) == [kind |-> "return", marker_code |-> code,
                        segment_offset |-> off, error |-> ""]

Raised(err) == [kind |-> "raise", marker_code |-> None, segment_offset |-> -1,
                error |-> err]

(***************************************************************************)
(* The stream: seek, read(1), tell.                                        *)
(***************************************************************************)
\* the byte at an offset of the stream
ByteAt(s, off) == s[off + 1]

\* stream.read(1) at the cursor: the byte there, or b'' at the end
Read1 == IF cursor < Len(stream) THEN ByteAt(stream, cursor) ELSE EMPTY

\* the cursor after stream.read(1): it moves only when a byte was read
AfterRead1 == IF cursor < Len(stream) THEN cursor + 1 ELSE cursor

\* every sequence over S of length at most n
SeqsUpTo(S, n) == UNION {[1..k -> S] : k \in 0..n}

(***************************************************************************)
(* Values of the package reader's variables.                               *)
(***************************************************************************)
\* a blob: the item it is the content of, and for an item of an XML package
\* the index of the part element and the child it was serialized from
Blob(name, index, child) == [of |-> name, index |-> index, child |-> child]

\* Python's None as the value a call returned
NoBlob == Blob("", 0, "None")

\* the result of a call: the method called, its argument, and what it gave
NoResult == [op |-> "", arg |-> "", kind |-> "none", value |-> NoBlob,
             error |-> ""]

PkgReturned(op, arg, blob) ==
    [op |-> op, arg |-> arg, kind |-> "return", value |-> blob, error |-> ""]

PkgRaised(op, arg, err) ==
    [op |-> op, arg |-> arg, kind |-> "raise", value |-> NoBlob, error |-> err]

\* no pkg_file: the run is not about a package
NoPkgFile == [type |-> "none", names |-> "", is_zip |-> FALSE, members |-> {},
              parts |-> <<>>]

\* an object object.__new__ has made and no __init__ has touched
NewObject(cls) == [cls |-> cls, zipf |-> "unset", attrs_set |-> FALSE,
                   parts |-> <<>>, content_types |-> <<>>]

\* the package variables of a run that reads a JPEG stream
PkgIdle ==
    /\ pkg_file = NoPkgFile
    /\ pkg_pc = "idle"
    /\ reader = NewObject("none")
    /\ pkg_result = NoResult

(***************************************************************************)
(* _MarkerFinder: next, _offset_of_next_ff_byte, _next_non_ff_byte and     *)
(* _read_byte, one action per seek and per byte read.                      *)
(***************************************************************************)
iterVars == <<marker_code, segment_offset, marker, markers, image>>

\* _read_byte's raise (jpeg.py:208-209): nothing catches it, so it ends the
\* top-level call
ReadByte_Raise ==
    /\ outcome' = Raised(UnexpectedEndOfStream)
    /\ pc' = "done"
    /\ eof_hit' = TRUE

\* next's entry: position = start (jpeg.py:161)
Next_Enter ==
    /\ pc = "next"
    /\ position' = start
    /\ scans' = scans + 1
    /\ pc' = "while_true"
    /\ UNCHANGED <<pkgVars, stream, cursor, caller, start, byte_, outcome,
                   iter_position, eof_hit, call_no, first, iterVars,
                   finder_reads>>

\* _offset_of_next_ff_byte without its seek: it reads on from wherever the
\* stream's cursor stands
OffsetOfNextFfByte_Seek_Missing ==
    /\ pc = "while_true"
    /\ iter_position' = position
    /\ pc' = "ff_read"
    /\ UNCHANGED <<pkgVars, stream, cursor, caller, start, position, byte_, outcome,
                   eof_hit, call_no, first, iterVars, scans, finder_reads>>

\* _offset_of_next_ff_byte(start=position): self._stream.seek(start)
\* (jpeg.py:164, 195)
OffsetOfNextFfByte_Seek ==
    /\ pc = "while_true"
    /\ cursor' = position
    /\ iter_position' = position
    /\ pc' = "ff_read"
    /\ UNCHANGED <<pkgVars, stream, caller, start, position, byte_, outcome, eof_hit,
                   call_no, first, iterVars, scans, finder_reads>>

\* _offset_of_next_ff_byte: one _read_byte of its loop; on b'\xFF' the loop
\* ends and the offset tell() - 1 is returned into position (jpeg.py:196-200)
OffsetOfNextFfByte_Read ==
    /\ pc = "ff_read"
    /\ IF Read1 = EMPTY
         THEN /\ ReadByte_Raise
              /\ UNCHANGED <<cursor, position, finder_reads>>
         ELSE /\ cursor' = AfterRead1
              /\ finder_reads' = finder_reads \cup {cursor}
              /\ IF Read1 = FF
                   THEN position' = cursor' - 1 /\ pc' = "non_ff_seek"
                   ELSE UNCHANGED position /\ pc' = "ff_read"
              /\ UNCHANGED <<outcome, eof_hit>>
    /\ UNCHANGED <<pkgVars, stream, caller, start, byte_, iter_position, call_no,
                   first, iterVars, scans>>

\* _next_non_ff_byte(start=position+1): self._stream.seek(start)
\* (jpeg.py:166, 182)
NextNonFfByte_Seek ==
    /\ pc = "non_ff_seek"
    /\ cursor' = position + 1
    /\ pc' = "non_ff_read"
    /\ UNCHANGED <<pkgVars, stream, caller, start, position, byte_, outcome,
                   iter_position, eof_hit, call_no, first, iterVars, scans,
                   finder_reads>>

\* _next_non_ff_byte reading with stream.read(1) and no end-of-file test:
\* b'' is not b'\xFF', so the loop ends and b'' is taken for the byte found
NextNonFfByte_Read_Unchecked ==
    /\ pc = "non_ff_read"
    /\ cursor' = AfterRead1
    /\ finder_reads' = IF Read1 = EMPTY THEN finder_reads
                       ELSE finder_reads \cup {cursor}
    /\ eof_hit' = (eof_hit \/ Read1 = EMPTY)
    /\ IF Read1 = FF
         THEN UNCHANGED <<position, byte_>> /\ pc' = "non_ff_read"
         ELSE /\ position' = cursor' - 1
              /\ byte_' = Read1
              /\ pc' = "check"
    /\ UNCHANGED <<pkgVars, stream, caller, start, outcome, iter_position, call_no,
                   first, iterVars, scans>>

\* _next_non_ff_byte: one _read_byte of its loop; on a byte other than
\* b'\xFF' the loop ends and (tell() - 1, byte_) is returned into
\* position, byte_ (jpeg.py:183-187)
NextNonFfByte_Read ==
    /\ pc = "non_ff_read"
    /\ IF Read1 = EMPTY
         THEN /\ ReadByte_Raise
              /\ UNCHANGED <<cursor, position, byte_, finder_reads>>
         ELSE /\ cursor' = AfterRead1
              /\ finder_reads' = finder_reads \cup {cursor}
              /\ IF Read1 = FF
                   THEN UNCHANGED <<position, byte_>> /\ pc' = "non_ff_read"
                   ELSE /\ position' = cursor' - 1
                        /\ byte_' = Read1
                        /\ pc' = "check"
              /\ UNCHANGED <<outcome, eof_hit>>
    /\ UNCHANGED <<pkgVars, stream, caller, start, iter_position, call_no, first,
                   iterVars, scans>>

\* next's return of (marker_code, segment_offset): to the caller of a direct
\* call, or into iter_markers' locals (jpeg.py:173, 130)
Next_Return(code, off) ==
    IF caller = "next"
      THEN /\ outcome' = Returned(code, off)
           /\ pc' = "done"
           /\ UNCHANGED <<marker_code, segment_offset>>
      ELSE /\ marker_code' = code
           /\ segment_offset' = off
           /\ pc' = "factory"
           /\ UNCHANGED outcome

\* next returning position instead of position + 1 as the segment offset
Next_Check_OffByOne ==
    /\ pc = "check"
    /\ IF byte_ = STUFF
         THEN /\ pc' = "while_true"
              /\ UNCHANGED <<outcome, marker_code, segment_offset>>
         ELSE Next_Return(byte_, position)
    /\ UNCHANGED <<pkgVars, stream, cursor, caller, start, position, byte_,
                   iter_position, eof_hit, call_no, first, marker, markers,
                   image, scans, finder_reads>>

\* next without its test for the stuffed byte: the byte after 0xFF is always
\* taken for a marker code
Next_Check_NoStuffing ==
    /\ pc = "check"
    /\ Next_Return(byte_, position + 1)
    /\ UNCHANGED <<pkgVars, stream, cursor, caller, start, position, byte_,
                   iter_position, eof_hit, call_no, first, marker, markers,
                   image, scans, finder_reads>>

\* next starting over from start, not from position, after 'FF 00'
Next_Check_RestartAtStart ==
    /\ pc = "check"
    /\ IF byte_ = STUFF
         THEN /\ pc' = "while_true"
              /\ position' = start
              /\ UNCHANGED <<outcome, marker_code, segment_offset>>
         ELSE Next_Return(byte_, position + 1) /\ UNCHANGED position
    /\ UNCHANGED <<pkgVars, stream, cursor, caller, start, byte_,
                   iter_position, eof_hit, call_no, first, marker, markers,
                   image, scans, finder_reads>>

\* the end of one iteration of next's loop: 'FF 00' starts the scan over
\* from position, anything else is the marker (jpeg.py:168-173)
Next_Check ==
    /\ pc = "check"
    /\ IF byte_ = STUFF
         THEN /\ pc' = "while_true"
              /\ UNCHANGED <<outcome, marker_code, segment_offset>>
         ELSE Next_Return(byte_, position + 1)
    /\ UNCHANGED <<pkgVars, stream, cursor, caller, start, position, byte_,
                   iter_position, eof_hit, call_no, first, marker, markers,
                   image, scans, finder_reads>>

\* the same call made a second time on the same buffer, with the stream's
\* cursor left anywhere by whoever used the stream in between
NextAgain ==
    /\ caller = "next"
    /\ pc = "done"
    /\ call_no = 1
    /\ first' = outcome
    /\ call_no' = 2
    /\ \E c \in 0..Len(stream) : cursor' = c
    /\ outcome' = NoOutcome
    /\ eof_hit' = FALSE
    /\ iter_position' = -1
    /\ finder_reads' = {}
    /\ pc' = "next"
    /\ UNCHANGED <<pkgVars, stream, caller, start, position, byte_, iterVars, scans>>

NoImage == [cx |-> 0, cy |-> 0, horz_dpi |-> 0, vert_dpi |-> 0]

NoMarker == [marker_code |-> None, segment_offset |-> -1,
             segment_length |-> 0, kind |-> "none", px_width |-> 0,
             px_height |-> 0, horz_dpi |-> 0, vert_dpi |-> 0]

\* a direct call next(start) on any short stream, any start offset, the
\* stream's cursor anywhere
InitNext ==
    /\ stream \in SeqsUpTo(ScanBytes, MaxLen)
    /\ start \in 0..(Len(stream) + 1)
    /\ cursor \in 0..Len(stream)
    /\ caller = "next"
    /\ pc = "next"
    /\ position = -1
    /\ byte_ = EMPTY
    /\ outcome = NoOutcome
    /\ iter_position = -1
    /\ eof_hit = FALSE
    /\ call_no = 1
    /\ first = NoOutcome
    /\ marker_code = None
    /\ segment_offset = -1
    /\ marker = NoMarker
    /\ markers = <<>>
    /\ image = NoImage
    /\ scans = 0
    /\ finder_reads = {}
    /\ PkgIdle

FinderStep ==
    \/ Next_Enter
    \/ OffsetOfNextFfByte_Seek
    \/ OffsetOfNextFfByte_Read
    \/ NextNonFfByte_Seek
    \/ NextNonFfByte_Read
    \/ Next_Check

NextScan == FinderStep \/ NextAgain

\* direct calls of _MarkerFinder.next
SpecNext == InitNext /\ [][NextScan]_vars

\* the scan's code runs on once called: no step of it waits for anything
FairSpecNext == SpecNext /\ WF_vars(FinderStep)

(***************************************************************************)
(* _MarkerFactory and the markers it builds.  jpeg.py holds them only as   *)
(* stubs; they are modelled from sections 4.4 and 4.5 of the               *)
(* specification.                                                          *)
(***************************************************************************)
\* the two bytes at off and off + 1 as a big-endian unsigned number
BigEndian16(s, off) == ByteAt(s, off) * 256 + ByteAt(s, off + 1)

\* the SOFn marker codes: 0xC0..0xCF without 0xC4, 0xC8 and 0xCC
IsSof(code) == code \in (192..207) \ {196, 200, 204}

\* "JFIF\0", the identifier of a JFIF APP0 segment
JfifIdentifier == <<74, 70, 73, 70, 0>>

\* the bytes of its segment a marker's decoder reads: none for SOI and EOI,
\* the fields up to component_count for SOFn, up to y_density for APP0, the
\* length field for any other marker
DecoderReads(code) ==
    IF code \in {SOI, EOI} THEN 0
    ELSE IF IsSof(code) THEN 8
    ELSE IF code = APP0 THEN 14
    ELSE 2

\* horz_dpi / vert_dpi of an APP0 segment: the density itself in pixels
\* per inch, round(density * 2.54) in pixels per cm, 72 without units
Dpi(density_units, density) ==
    IF density_units = 1 THEN density
    ELSE IF density_units = 2 THEN (density * 254 + 50) \div 100
    ELSE DefaultDpi

\* whether the segment at off carries the JFIF identifier
HasJfifIdentifier(s, off) ==
    \A i \in 1..Len(JfifIdentifier) : ByteAt(s, off + 1 + i) = JfifIdentifier[i]

\* _MarkerFactory(marker_code, stream, offset) where the stream holds the
\* bytes the decoder reads
MarkerFactory(code, s, off) ==
    LET opaque == [marker_code |-> code, segment_offset |-> off,
                   segment_length |-> 0, kind |-> "opaque", px_width |-> 0,
                   px_height |-> 0, horz_dpi |-> 0, vert_dpi |-> 0]
    IN  IF code \in {SOI, EOI} THEN opaque
        ELSE IF IsSof(code)
          THEN [opaque EXCEPT !.segment_length = BigEndian16(s, off),
                              !.kind = "sof",
                              !.px_height = BigEndian16(s, off + 3),
                              !.px_width = BigEndian16(s, off + 5)]
        ELSE IF code = APP0 /\ HasJfifIdentifier(s, off)
          THEN [opaque EXCEPT !.segment_length = BigEndian16(s, off),
                              !.kind = "app0",
                              !.horz_dpi = Dpi(ByteAt(s, off + 9),
                                               BigEndian16(s, off + 10)),
                              !.vert_dpi = Dpi(ByteAt(s, off + 9),
                                               BigEndian16(s, off + 12))]
        ELSE [opaque EXCEPT !.segment_length = BigEndian16(s, off)]

\* whether the stream ends within the bytes the decoder reads
DecoderMeetsEnd(code, s, off) == off + DecoderReads(code) > Len(s)

\* the indexes of the SOFn markers of a marker sequence
SofIndexes(ms) == {i \in 1..Len(ms) : ms[i].kind = "sof"}

\* the indexes of the JFIF APP0 markers of a marker sequence
App0Indexes(ms) == {i \in 1..Len(ms) : ms[i].kind = "app0"}

\* the error of a parse that met no SOFn marker (specification 4.6)
MissingFrameHeader == "MissingFrameHeader"

\* _JfifMarkers.sof: the first SOFn marker
Sof(ms) == ms[CHOOSE i \in SofIndexes(ms) : \A j \in SofIndexes(ms) : i <= j]

\* _JfifMarkers.app0: the first APP0 marker, or the default resolution
\* when there is none
App0(ms) ==
    IF App0Indexes(ms) = {}
      THEN [NoMarker EXCEPT !.horz_dpi = DefaultDpi, !.vert_dpi = DefaultDpi]
      ELSE ms[CHOOSE i \in App0Indexes(ms) : \A j \in App0Indexes(ms) : i <= j]

(***************************************************************************)
(* _MarkerParser.iter_markers, a generator, and its consumers: the loop of *)
(* _JfifMarkers.from_stream, and a loop that takes every marker the        *)
(* generator yields.                                                       *)
(***************************************************************************)
finderVars == <<position, byte_, iter_position, finder_reads>>

\* _JfifMarkers.from_stream up to its loop: markers = [] (jpeg.py:80-82)
JfifMarkers_FromStream_Begin ==
    /\ pc = "from_stream"
    /\ markers' = <<>>
    /\ pc' = "iter_markers"
    /\ UNCHANGED <<pkgVars, stream, cursor, caller, start, outcome, eof_hit, call_no,
                   first, marker_code, segment_offset, marker, image, scans,
                   finderVars>>

\* the generator's start, at the first marker asked of it: start = 0,
\* marker_code = None (jpeg.py:126-128)
IterMarkers_Begin ==
    /\ pc = "iter_markers"
    /\ start' = 0
    /\ marker_code' = None
    /\ pc' = "iter_while"
    /\ UNCHANGED <<pkgVars, stream, cursor, caller, outcome, eof_hit, call_no, first,
                   segment_offset, marker, markers, image, scans, finderVars>>

\* the generator's end: whoever consumes it leaves its loop
IterMarkers_Exhausted ==
    IF caller = "Jfif"
      THEN pc' = "collected" /\ UNCHANGED outcome
      ELSE pc' = "done" /\ outcome' = Returned(None, -1)

\* iter_markers with a loop that never ends of itself: while True
IterMarkers_While_Forever ==
    /\ pc = "iter_while"
    /\ pc' = "next"
    /\ UNCHANGED <<pkgVars, stream, cursor, caller, start, outcome, eof_hit, call_no,
                   first, marker_code, segment_offset, marker, markers, image,
                   scans, finderVars>>

\* the generator's loop test, and the scan it starts
\* (jpeg.py:129-130)
IterMarkers_While ==
    /\ pc = "iter_while"
    /\ IF marker_code # EOI
         THEN pc' = "next" /\ UNCHANGED outcome
         ELSE IterMarkers_Exhausted
    /\ UNCHANGED <<pkgVars, stream, cursor, caller, start, eof_hit, call_no, first,
                   marker_code, segment_offset, marker, markers, image,
                   scans, finderVars>>

\* marker = _MarkerFactory(marker_code, self._stream, segment_offset)
\* (jpeg.py:131-133); a decoder that meets the end of the stream raises
MarkerFactory_Call ==
    /\ pc = "factory"
    /\ IF DecoderMeetsEnd(marker_code, stream, segment_offset)
         THEN /\ outcome' = Raised(UnexpectedEndOfStream)
              /\ eof_hit' = TRUE
              /\ pc' = "done"
              /\ cursor' = Len(stream)
              /\ UNCHANGED marker
         ELSE /\ marker' = MarkerFactory(marker_code, stream, segment_offset)
              /\ cursor' = segment_offset + DecoderReads(marker_code)
              /\ pc' = "yield"
              /\ UNCHANGED <<outcome, eof_hit>>
    /\ UNCHANGED <<pkgVars, stream, caller, start, call_no, first, marker_code,
                   segment_offset, markers, image, scans, finderVars>>

\* from_stream without its break at SOS
JfifMarkers_FromStream_Append_NoBreak ==
    /\ pc = "yield"
    /\ caller = "Jfif"
    /\ markers' = Append(markers, marker)
    /\ pc' = "resume"
    /\ UNCHANGED <<pkgVars, stream, cursor, caller, start, outcome, eof_hit, call_no,
                   first, marker_code, segment_offset, marker, image, scans,
                   finderVars>>

\* the yield (jpeg.py:134) into the loop of _JfifMarkers.from_stream: the
\* marker is appended, and the loop is left at SOS (jpeg.py:82-85)
JfifMarkers_FromStream_Append ==
    /\ pc = "yield"
    /\ caller = "Jfif"
    /\ markers' = Append(markers, marker)
    /\ pc' = IF marker.marker_code = SOS THEN "collected" ELSE "resume"
    /\ UNCHANGED <<pkgVars, stream, cursor, caller, start, outcome, eof_hit, call_no,
                   first, marker_code, segment_offset, marker, image, scans,
                   finderVars>>

\* the yield (jpeg.py:134) into a loop that takes every marker
Consumer_Append ==
    /\ pc = "yield"
    /\ caller = "iter_markers"
    /\ markers' = Append(markers, marker)
    /\ pc' = "resume"
    /\ UNCHANGED <<pkgVars, stream, cursor, caller, start, outcome, eof_hit, call_no,
                   first, marker_code, segment_offset, marker, image, scans,
                   finderVars>>

\* iter_markers taking the segment offset itself for the next start
IterMarkers_Advance_NoLength ==
    /\ pc = "resume"
    /\ start' = segment_offset
    /\ pc' = "iter_while"
    /\ UNCHANGED <<pkgVars, stream, cursor, caller, outcome, eof_hit, call_no, first,
                   marker_code, segment_offset, marker, markers, image,
                   scans, finderVars>>

\* the generator resumed: start = segment_offset + marker.segment_length
\* (jpeg.py:135)
IterMarkers_Advance ==
    /\ pc = "resume"
    /\ start' = segment_offset + marker.segment_length
    /\ pc' = "iter_while"
    /\ UNCHANGED <<pkgVars, stream, cursor, caller, outcome, eof_hit, call_no, first,
                   marker_code, segment_offset, marker, markers, image,
                   scans, finderVars>>

\* Jfif.from_stream with width and height taken the wrong way round
Jfif_FromStream_Build_Swapped ==
    /\ pc = "collected"
    /\ IF SofIndexes(markers) = {}
         THEN /\ outcome' = Raised(MissingFrameHeader)
              /\ UNCHANGED image
         ELSE /\ image' = [cx |-> Sof(markers).px_height,
                           cy |-> Sof(markers).px_width,
                           horz_dpi |-> App0(markers).horz_dpi,
                           vert_dpi |-> App0(markers).vert_dpi]
              /\ outcome' = Returned(None, -1)
    /\ pc' = "done"
    /\ UNCHANGED <<pkgVars, stream, cursor, caller, start, eof_hit, call_no, first,
                   marker_code, segment_offset, marker, markers, scans,
                   finderVars>>

\* Jfif.from_stream once the markers are collected: sof, app0 and the
\* instance built from them (jpeg.py:43-46); without a SOFn marker sof fails
Jfif_FromStream_Build ==
    /\ pc = "collected"
    /\ IF SofIndexes(markers) = {}
         THEN /\ outcome' = Raised(MissingFrameHeader)
              /\ UNCHANGED image
         ELSE /\ image' = [cx |-> Sof(markers).px_width,
                           cy |-> Sof(markers).px_height,
                           horz_dpi |-> App0(markers).horz_dpi,
                           vert_dpi |-> App0(markers).vert_dpi]
              /\ outcome' = Returned(None, -1)
    /\ pc' = "done"
    /\ UNCHANGED <<pkgVars, stream, cursor, caller, start, eof_hit, call_no, first,
                   marker_code, segment_offset, marker, markers, scans,
                   finderVars>>

(***************************************************************************)
(* The JPEG streams of the model: up to MaxChunks chunks in any order.     *)
(***************************************************************************)
SoiChunk == <<FF, SOI>>

\* EOI behind one byte of 0xFF padding
EoiChunk == <<FF, FF, EOI>>

\* SOS with the shortest segment there is: its length field
SosChunk == <<FF, SOS, 0, 2>>

\* SOF0: length 8, precision 8, px_height 2, px_width 3, one component
SofChunk == <<FF, SOF0, 0, 8, 8, 0, 2, 0, 3, 1>>

\* JFIF APP0: length 16, "JFIF\0", version 1.1, pixels per cm, x_density
\* 300, y_density 96, no thumbnail
App0Chunk == <<FF, APP0, 0, 16, 74, 70, 73, 70, 0, 1, 1, 2, 1, 44, 0, 96, 0, 0>>

\* a comment segment whose body reads like a SOF0 marker
ComChunk == <<FF, COM, 0, 4, FF, SOF0>>

\* entropy-coded bytes: a data byte and a stuffed 0xFF
EntropyChunk == <<18, FF, STUFF>>

\* a SOF0 segment cut off within its fields
CutSofChunk == <<FF, SOF0, 0, 8, 8>>

Chunks == {SoiChunk, EoiChunk, SosChunk, SofChunk, App0Chunk, ComChunk,
           EntropyChunk, CutSofChunk}

RECURSIVE Concat(_)
Concat(cs) == IF cs = <<>> THEN <<>> ELSE Head(cs) \o Concat(Tail(cs))

JpegStreams == {Concat(cs) : cs \in SeqsUpTo(Chunks, MaxChunks)}

\* Jfif.from_stream(stream, blob, filename), or a loop over
\* _MarkerParser.from_stream(stream).iter_markers(), on a stream of chunks
InitJfif ==
    /\ stream \in JpegStreams
    /\ caller \in {"Jfif", "iter_markers"}
    /\ pc = IF caller = "Jfif" THEN "from_stream" ELSE "iter_markers"
    /\ cursor = 0
    /\ start = 0
    /\ position = -1
    /\ byte_ = EMPTY
    /\ outcome = NoOutcome
    /\ iter_position = -1
    /\ eof_hit = FALSE
    /\ call_no = 1
    /\ first = NoOutcome
    /\ marker_code = None
    /\ segment_offset = -1
    /\ marker = NoMarker
    /\ markers = <<>>
    /\ image = NoImage
    /\ scans = 0
    /\ finder_reads = {}
    /\ PkgIdle

NextJfif ==
    \/ FinderStep
    \/ JfifMarkers_FromStream_Begin
    \/ IterMarkers_Begin
    \/ IterMarkers_While
    \/ MarkerFactory_Call
    \/ JfifMarkers_FromStream_Append
    \/ Consumer_Append
    \/ IterMarkers_Advance
    \/ Jfif_FromStream_Build

\* header extraction, and plain iteration over the markers
SpecJfif == InitJfif /\ [][NextJfif]_vars

\* one thread runs the consumer's loop, the generator and the calls it
\* makes: a step that can be taken is taken
FairSpecJfif == SpecJfif /\ WF_vars(NextJfif)

(***************************************************************************)
(* phys_pkg.py: the packages PhysPkgReader is given.                       *)
(***************************************************************************)
\* the member names of the packages of the model (pack_uri.membername)
Members == {"[Content_Types].xml", "_rels/.rels", "word/document.xml",
            "word/_rels/document.xml.rels"}

\* the sources rels_xml_for is asked about: the package and its main part
SourceUris == {"/", "/word/document.xml"}

\* source_uri.rels_uri.membername
RelsMembername(source_uri) ==
    IF source_uri = "/" THEN "_rels/.rels" ELSE "word/_rels/document.xml.rels"

\* CONTENT_TYPES_URI.membername
ContentTypesMembername == "[Content_Types].xml"

\* the part elements of an XML package: the pkg:name attribute and the
\* numbers of xmlData and binaryData children
PartElements == [name : {"_rels/.rels", "word/document.xml"},
                 xmlData : 0..MaxChildren, binaryData : 0..MaxChildren]

\* a path (a string) naming a directory, a zip file or neither; the bytes of
\* an XML package; a stream that holds a zip archive or does not
PkgFiles ==
    {[type |-> "str", names |-> n, is_zip |-> (n = "zip"), members |-> m,
      parts |-> <<>>] :
        n \in {"dir", "zip"}, m \in SUBSET Members}
    \cup {[type |-> "str", names |-> "other", is_zip |-> FALSE,
           members |-> {}, parts |-> <<>>]}
    \cup {[type |-> "bytes", names |-> "", is_zip |-> FALSE, members |-> {},
           parts |-> ps] : ps \in SeqsUpTo(PartElements, MaxParts)}
    \cup {[type |-> "stream", names |-> "", is_zip |-> TRUE, members |-> m,
           parts |-> <<>>] : m \in SUBSET Members}
    \cup {[type |-> "stream", names |-> "", is_zip |-> FALSE,
           members |-> {}, parts |-> <<>>]}

(***************************************************************************)
(* PhysPkgReader.__new__                                                   *)
(***************************************************************************)
\* is_string(pkg_file)
IsString(f) == f.type = "str"

\* os.path.isdir(pkg_file)
IsDir(f) == f.names = "dir"

\* is_zipfile(pkg_file)
IsZipfile(f) == f.is_zip

\* isinstance(pkg_file, bytes)
IsBytes(f) == f.type = "bytes"

\* __new__ without the raise for a path that names no package: the zip
\* reader is left to sort it out
StringBranch_NoRaise(f) ==
    IF IsString(f)
      THEN IF IsDir(f) THEN "_DirPkgReader" ELSE "_ZipPkgReader"
      ELSE "unbound"

\* the first if statement (phys_pkg.py:26-34): the class it binds to
\* reader_cls, "unbound" when it binds none, "raise" when it raises
StringBranch(f) ==
    IF IsString(f)
      THEN IF IsDir(f) THEN "_DirPkgReader"
           ELSE IF IsZipfile(f) THEN "_ZipPkgReader"
           ELSE "raise"
      ELSE "unbound"

\* the second if statement (phys_pkg.py:36-39), which binds reader_cls
\* whatever the first one bound
BytesBranch(f, bound) ==
    IF IsBytes(f) THEN "_XmlPkgReader" ELSE "_ZipPkgReader"

\* reader_cls at the return (phys_pkg.py:41)
ReaderCls(f) == BytesBranch(f, StringBranch(f))

\* PhysPkgReader.__new__(cls, pkg_file)
PhysPkgReader_New ==
    /\ pkg_pc = "new"
    /\ IF StringBranch(pkg_file) = "raise"
         THEN /\ pkg_result' = PkgRaised("__new__", "", "PackageNotFoundError")
              /\ pkg_pc' = "failed"
              /\ UNCHANGED reader
         ELSE /\ reader' = NewObject(ReaderCls(pkg_file))
              /\ pkg_pc' = "init"
              /\ UNCHANGED pkg_result
    /\ UNCHANGED <<jpegVars, pkg_file>>

(***************************************************************************)
(* _ZipPkgReader                                                           *)
(***************************************************************************)
\* whether ZipFile(pkg_file, 'r') opens: "" if it does, else its error
ZipFileError(f) ==
    IF IsString(f) /\ IsDir(f) THEN "IsADirectoryError"
    ELSE IF ~IsZipfile(f) THEN "BadZipFile"
    ELSE ""

\* _ZipPkgReader.__init__ (phys_pkg.py:105-107)
ZipPkgReader_Init ==
    /\ pkg_pc = "init"
    /\ reader.cls = "_ZipPkgReader"
    /\ IF ZipFileError(pkg_file) # ""
         THEN /\ pkg_result' = PkgRaised("__init__", "", ZipFileError(pkg_file))
              /\ pkg_pc' = "failed"
              /\ UNCHANGED reader
         ELSE /\ reader' = [reader EXCEPT !.zipf = "open", !.attrs_set = TRUE]
              /\ pkg_pc' = "ready"
              /\ UNCHANGED pkg_result
    /\ UNCHANGED <<jpegVars, pkg_file>>

\* self._zipf.read(membername): ValueError on a closed archive, KeyError
\* for a name the archive does not hold (phys_pkg.py:114)
ZipRead(op, arg, membername) ==
    IF reader.zipf = "closed" THEN PkgRaised(op, arg, "ValueError")
    ELSE IF membername \notin pkg_file.members THEN PkgRaised(op, arg, "KeyError")
    ELSE PkgReturned(op, arg, Blob(membername, 0, "member"))

\* _ZipPkgReader.blob_for(pack_uri) (phys_pkg.py:109-114)
ZipPkgReader_BlobFor ==
    /\ pkg_pc = "ready"
    /\ reader.cls = "_ZipPkgReader"
    /\ \E m \in Members : pkg_result' = ZipRead("blob_for", m, m)
    /\ UNCHANGED <<jpegVars, pkg_file, pkg_pc, reader>>

\* _ZipPkgReader.content_types_xml (phys_pkg.py:122-127)
ZipPkgReader_ContentTypesXml ==
    /\ pkg_pc = "ready"
    /\ reader.cls = "_ZipPkgReader"
    /\ pkg_result' = ZipRead("content_types_xml", "", ContentTypesMembername)
    /\ UNCHANGED <<jpegVars, pkg_file, pkg_pc, reader>>

\* a rels_xml_for whose try catches nothing
ExceptKeyError_Uncaught(result) == result

\* a rels_xml_for around a blob_for: KeyError becomes the value None
\* (phys_pkg.py:134-138, 191-195)
ExceptKeyError(result) ==
    IF result.kind = "raise" /\ result.error = "KeyError"
      THEN PkgReturned(result.op, result.arg, NoBlob)
      ELSE result

\* _ZipPkgReader.rels_xml_for(source_uri) (phys_pkg.py:129-138)
ZipPkgReader_RelsXmlFor ==
    /\ pkg_pc = "ready"
    /\ reader.cls = "_ZipPkgReader"
    /\ \E u \in SourceUris :
           pkg_result' = ExceptKeyError(ZipRead("rels_xml_for", u,
                                                RelsMembername(u)))
    /\ UNCHANGED <<jpegVars, pkg_file, pkg_pc, reader>>

\* _ZipPkgReader.close() (phys_pkg.py:116-120)
ZipPkgReader_Close ==
    /\ pkg_pc = "ready"
    /\ reader.cls = "_ZipPkgReader"
    /\ reader' = [reader EXCEPT !.zipf = "closed"]
    /\ pkg_result' = PkgReturned("close", "", NoBlob)
    /\ UNCHANGED <<jpegVars, pkg_file, pkg_pc>>

(***************************************************************************)
(* _DirPkgReader                                                           *)
(***************************************************************************)
\* _DirPkgReader.__init__ (phys_pkg.py:58-63): it stores the absolute path
\* and looks at nothing
DirPkgReader_Init ==
    /\ pkg_pc = "init"
    /\ reader.cls = "_DirPkgReader"
    /\ reader' = [reader EXCEPT !.attrs_set = TRUE]
    /\ pkg_pc' = "ready"
    /\ UNCHANGED <<jpegVars, pkg_file, pkg_result>>

\* open(path, 'rb') and f.read(): IOError for a file the directory does not
\* hold (phys_pkg.py:70-73)
DirRead(op, arg, membername) ==
    IF membername \notin pkg_file.members THEN PkgRaised(op, arg, "IOError")
    ELSE PkgReturned(op, arg, Blob(membername, 0, "file"))

\* _DirPkgReader.blob_for(pack_uri) (phys_pkg.py:65-73)
DirPkgReader_BlobFor ==
    /\ pkg_pc = "ready"
    /\ reader.cls = "_DirPkgReader"
    /\ \E m \in Members : pkg_result' = DirRead("blob_for", m, m)
    /\ UNCHANGED <<jpegVars, pkg_file, pkg_pc, reader>>

\* _DirPkgReader.content_types_xml (phys_pkg.py:82-87)
DirPkgReader_ContentTypesXml ==
    /\ pkg_pc = "ready"
    /\ reader.cls = "_DirPkgReader"
    /\ pkg_result' = DirRead("content_types_xml", "", ContentTypesMembername)
    /\ UNCHANGED <<jpegVars, pkg_file, pkg_pc, reader>>

\* the try of _DirPkgReader.rels_xml_for: IOError becomes the value None
\* (phys_pkg.py:94-98)
ExceptIOError(result) ==
    IF result.kind = "raise" /\ result.error = "IOError"
      THEN PkgReturned(result.op, result.arg, NoBlob)
      ELSE result

\* _DirPkgReader.rels_xml_for(source_uri) (phys_pkg.py:89-98)
DirPkgReader_RelsXmlFor ==
    /\ pkg_pc = "ready"
    /\ reader.cls = "_DirPkgReader"
    /\ \E u \in SourceUris :
           pkg_result' = ExceptIOError(DirRead("rels_xml_for", u,
                                               RelsMembername(u)))
    /\ UNCHANGED <<jpegVars, pkg_file, pkg_pc, reader>>

\* _DirPkgReader.close() (phys_pkg.py:75-80)
DirPkgReader_Close ==
    /\ pkg_pc = "ready"
    /\ reader.cls = "_DirPkgReader"
    /\ pkg_result' = PkgReturned("close", "", NoBlob)
    /\ UNCHANGED <<jpegVars, pkg_file, pkg_pc, reader>>

(***************************************************************************)
(* _XmlPkgReader                                                           *)
(***************************************************************************)
\* the child a part element's blob is serialized from: the xmlData child if
\* there is exactly one, else the binaryData child if there is exactly one,
\* else none (phys_pkg.py:157-161)
PartChild(e) ==
    IF e.xmlData = 1 THEN "xmlData"
    ELSE IF e.binaryData = 1 THEN "binaryData"
    ELSE "none"

\* the dict parts after the loop over all part elements: the first element
\* of a name gives its blob, by setdefault (phys_pkg.py:152-162)
XmlParts(elems) ==
    LET names == {elems[i].name : i \in 1..Len(elems)}
        firstOf(n) == CHOOSE i \in 1..Len(elems) :
                          /\ elems[i].name = n
                          /\ \A j \in 1..Len(elems) : elems[j].name = n => i <= j
    IN  [n \in names |-> Blob(n, firstOf(n), PartChild(elems[firstOf(n)]))]

\* the names of the Override elements of content_type_xml, one per part
\* element (phys_pkg.py:153-156)
XmlOverrides(elems) == [i \in 1..Len(elems) |-> elems[i].name]

\* an __init__ that fills self._parts and self._content_type_xml as the loop
\* goes, so that what was loaded before the raise stays on the object
XmlPkgReader_Init_LoadsAsItGoes ==
    /\ pkg_pc = "init"
    /\ reader.cls = "_XmlPkgReader"
    /\ reader' = [reader EXCEPT !.parts = XmlParts(pkg_file.parts),
                                !.content_types = XmlOverrides(pkg_file.parts),
                                !.attrs_set = TRUE]
    /\ IF \E i \in 1..Len(pkg_file.parts) : PartChild(pkg_file.parts[i]) = "none"
         THEN /\ pkg_result' = PkgRaised("__init__", "", "ValueError")
              /\ pkg_pc' = "failed"
         ELSE /\ pkg_pc' = "ready"
              /\ UNCHANGED pkg_result
    /\ UNCHANGED <<jpegVars, pkg_file>>

\* _XmlPkgReader.__init__ (phys_pkg.py:145-164)
XmlPkgReader_Init ==
    /\ pkg_pc = "init"
    /\ reader.cls = "_XmlPkgReader"
    /\ IF \E i \in 1..Len(pkg_file.parts) : PartChild(pkg_file.parts[i]) = "none"
         THEN /\ pkg_result' = PkgRaised("__init__", "", "ValueError")
              /\ pkg_pc' = "failed"
              /\ UNCHANGED reader
         ELSE /\ reader' = [reader EXCEPT !.parts = XmlParts(pkg_file.parts),
                                !.content_types = XmlOverrides(pkg_file.parts),
                                !.attrs_set = TRUE]
              /\ pkg_pc' = "ready"
              /\ UNCHANGED pkg_result
    /\ UNCHANGED <<jpegVars, pkg_file>>

\* self._parts[membername]: KeyError for a name the dict does not hold
\* (phys_pkg.py:171)
XmlRead(op, arg, membername) ==
    IF membername \notin DOMAIN reader.parts THEN PkgRaised(op, arg, "KeyError")
    ELSE PkgReturned(op, arg, reader.parts[membername])

\* _XmlPkgReader.blob_for(pack_uri) (phys_pkg.py:166-171)
XmlPkgReader_BlobFor ==
    /\ pkg_pc = "ready"
    /\ reader.cls = "_XmlPkgReader"
    /\ \E m \in Members : pkg_result' = XmlRead("blob_for", m, m)
    /\ UNCHANGED <<jpegVars, pkg_file, pkg_pc, reader>>

\* _XmlPkgReader.content_types_xml (phys_pkg.py:179-184)
XmlPkgReader_ContentTypesXml ==
    /\ pkg_pc = "ready"
    /\ reader.cls = "_XmlPkgReader"
    /\ pkg_result' = PkgReturned("content_types_xml", "",
                                 Blob(ContentTypesMembername,
                                      Len(reader.content_types), "Types"))
    /\ UNCHANGED <<jpegVars, pkg_file, pkg_pc, reader>>

\* _XmlPkgReader.rels_xml_for(source_uri) (phys_pkg.py:186-195)
XmlPkgReader_RelsXmlFor ==
    /\ pkg_pc = "ready"
    /\ reader.cls = "_XmlPkgReader"
    /\ \E u \in SourceUris :
           pkg_result' = ExceptKeyError(XmlRead("rels_xml_for", u,
                                                RelsMembername(u)))
    /\ UNCHANGED <<jpegVars, pkg_file, pkg_pc, reader>>

\* _XmlPkgReader.close() (phys_pkg.py:173-177)
XmlPkgReader_Close ==
    /\ pkg_pc = "ready"
    /\ reader.cls = "_XmlPkgReader"
    /\ pkg_result' = PkgReturned("close", "", NoBlob)
    /\ UNCHANGED <<jpegVars, pkg_file, pkg_pc, reader>>

\* the variables of the JPEG parser in a run that reads a package
JpegIdle ==
    /\ stream = <<>>
    /\ cursor = 0
    /\ caller = "none"
    /\ pc = "idle"
    /\ start = 0
    /\ position = -1
    /\ byte_ = EMPTY
    /\ outcome = NoOutcome
    /\ iter_position = -1
    /\ eof_hit = FALSE
    /\ call_no = 1
    /\ first = NoOutcome
    /\ marker_code = None
    /\ segment_offset = -1
    /\ marker = NoMarker
    /\ markers = <<>>
    /\ image = NoImage
    /\ scans = 0
    /\ finder_reads = {}

\* PhysPkgReader(pkg_file) about to be called
InitFactory ==
    /\ pkg_file \in PkgFiles
    /\ pkg_pc = "new"
    /\ reader = NewObject("none")
    /\ pkg_result = NoResult

\* PhysPkgReader.__new__ never makes a _DirPkgReader (its directory branch is
\* overwritten, phys_pkg.py:36-39), and _DirPkgReader(path) goes through the
\* same __new__. The class is reached only past __new__: an object made by
\* object.__new__(_DirPkgReader), about to run __init__(path) on a directory
InitDir ==
    /\ pkg_file \in {f \in PkgFiles : IsString(f) /\ IsDir(f)}
    /\ pkg_pc = "init"
    /\ reader = NewObject("_DirPkgReader")
    /\ pkg_result = NoResult

InitPkg ==
    /\ InitFactory \/ InitDir
    /\ JpegIdle

NextPkg ==
    \/ PhysPkgReader_New
    \/ ZipPkgReader_Init
    \/ ZipPkgReader_BlobFor
    \/ ZipPkgReader_ContentTypesXml
    \/ ZipPkgReader_RelsXmlFor
    \/ ZipPkgReader_Close
    \/ DirPkgReader_Init
    \/ DirPkgReader_BlobFor
    \/ DirPkgReader_ContentTypesXml
    \/ DirPkgReader_RelsXmlFor
    \/ DirPkgReader_Close
    \/ XmlPkgReader_Init
    \/ XmlPkgReader_BlobFor
    \/ XmlPkgReader_ContentTypesXml
    \/ XmlPkgReader_RelsXmlFor
    \/ XmlPkgReader_Close

\* the construction of a package reader and the calls on it
SpecPkg == InitPkg /\ [][NextPkg]_vars

(***************************************************************************)
(* The scan algorithm as the specification states it (section 4.2), by     *)
(* least offsets, for comparison with what the code's loops compute.       *)
(***************************************************************************)
Min(S) == CHOOSE x \in S : \A y \in S : x <= y

FfOffsetsFrom(s, from) == {i \in from..(Len(s) - 1) : ByteAt(s, i) = FF}

NonFfOffsetsFrom(s, from) == {i \in from..(Len(s) - 1) : ByteAt(s, i) # FF}

RECURSIVE ScanAlgorithm(_, _)
ScanAlgorithm(s, from) ==
    IF FfOffsetsFrom(s, from) = {}
      THEN Raised(UnexpectedEndOfStream)
      ELSE LET p == Min(FfOffsetsFrom(s, from)) IN
           IF NonFfOffsetsFrom(s, p + 1) = {}
             THEN Raised(UnexpectedEndOfStream)
             ELSE LET q == Min(NonFfOffsetsFrom(s, p + 1))
                      b == ByteAt(s, q)
                  IN  IF b = STUFF
                        THEN ScanAlgorithm(s, q + 1)
                        ELSE Returned(b, q + 1)

\* a direct call of next has ended
NextDone == caller = "next" /\ pc = "done"

\* the stream begins with the bytes of prefix
BeginsWith(s, prefix) ==
    /\ Len(s) >= Len(prefix)
    /\ \A i \in 1..Len(prefix) : s[i] = prefix[i]

(***************************************************************************)
(* C1: for every stream and start offset, _MarkerFinder.next(start) ends   *)
(* with exactly the outcome of the specification's scan algorithm (least   *)
(* 0xFF at p >= start, least non-0xFF byte b at q > p, (b, q+1) unless b   *)
(* is 0x00, and then the scan restarted from q+1); on a stream beginning   *)
(* FF FF FF E0 scanned from 0 it returns (0xE0, 4).                        *)
(***************************************************************************)
C1_NextMatchesScanAlgorithm ==
    NextDone =>
        /\ outcome = ScanAlgorithm(stream, start)
        /\ (BeginsWith(stream, <<FF, FF, FF, APP0>>) /\ start = 0)
               => outcome = Returned(APP0, 4)

\* a stuffed pair, then padding, then a marker: found after the restart
C1_Witness ==
    /\ NextDone
    /\ stream = <<FF, STUFF, FF, FF, APP0>>
    /\ start = 0
    /\ outcome = Returned(APP0, 5)

(***************************************************************************)
(* C2: a stuffed FF 00 pair is never reported as a marker: a returned      *)
(* marker_code is neither 0x00 nor 0xFF, it is the byte at                 *)
(* segment_offset - 1, the byte at segment_offset - 2 is 0xFF, and         *)
(* segment_offset >= start + 2; every FF 00 pair met on the way was        *)
(* passed, and the bytes of the pair were read.                            *)
(***************************************************************************)
C2_StuffedPairIsNoMarker ==
    (NextDone /\ outcome.kind = "return") =>
        /\ outcome.marker_code \notin {STUFF, FF}
        /\ outcome.segment_offset >= start + 2
        /\ outcome.segment_offset <= Len(stream)
        /\ ByteAt(stream, outcome.segment_offset - 1) = outcome.marker_code
        /\ ByteAt(stream, outcome.segment_offset - 2) = FF
        /\ \A i \in start..(outcome.segment_offset - 2) :
               (ByteAt(stream, i) = FF /\ ByteAt(stream, i + 1) = STUFF)
                   => {i, i + 1} \subseteq finder_reads

\* a marker returned from behind a stuffed pair
C2_Witness ==
    /\ NextDone
    /\ outcome.kind = "return"
    /\ \E i \in start..(outcome.segment_offset - 3) :
           ByteAt(stream, i) = FF /\ ByteAt(stream, i + 1) = STUFF

C4_NextTerminates ==
    /\ [][(pc = "check" /\ pc' = "while_true") => position' > iter_position]_vars
    /\ <>[](pc = "done")

\* a stream of repeated FF 00 pairs: the loop started a third time, at 3
C4_Witness ==
    /\ NextDone
    /\ stream = <<FF, STUFF, FF, STUFF>>
    /\ start = 0
    /\ iter_position = 3
    /\ outcome.kind = "raise"

(***************************************************************************)
(* C9: the scan is a function of the bytes and the start offset alone: a   *)
(* second call on the same buffer with the same start ends with the        *)
(* outcome of the first, wherever the stream's cursor stood before each.   *)
(***************************************************************************)
C9_ScanIsDeterministic ==
    (NextDone /\ call_no = 2) => outcome = first

\* the second call returned a marker, having started with the cursor
\* somewhere else than the first call left it
C9_Witness ==
    /\ NextDone
    /\ call_no = 2
    /\ outcome.kind = "return"
    /\ first.kind = "return"
    /\ outcome.segment_offset < Len(stream)

(***************************************************************************)
(* The marker sequence as the specification states it (section 4.3): scan  *)
(* from 0, then from segment_offset + segment_length of each marker, up to *)
(* EOI, or up to the first SOS when the sequence stops there.  complete    *)
(* says that the walk reached its last marker before the stream ended.     *)
(***************************************************************************)
RECURSIVE MarkerSequence(_, _, _)
MarkerSequence(s, from, stopAtSos) ==
    LET found == ScanAlgorithm(s, from) IN
    IF found.kind = "raise"
      THEN [ms |-> <<>>, complete |-> FALSE]
    ELSE IF DecoderMeetsEnd(found.marker_code, s, found.segment_offset)
      THEN [ms |-> <<>>, complete |-> FALSE]
    ELSE LET m == MarkerFactory(found.marker_code, s, found.segment_offset) IN
         IF m.marker_code = EOI \/ (stopAtSos /\ m.marker_code = SOS)
           THEN [ms |-> <<m>>, complete |-> TRUE]
           ELSE LET rest == MarkerSequence(s, m.segment_offset + m.segment_length,
                                           stopAtSos)
                IN  [ms |-> <<m>> \o rest.ms, complete |-> rest.complete]

\* the marker codes of a marker sequence
Codes(ms) == {ms[i].marker_code : i \in 1..Len(ms)}

\* the marker codes of a marker sequence without its last marker
CodesBeforeLast(ms) == {ms[i].marker_code : i \in 1..(Len(ms) - 1)}

\* a run of Jfif.from_stream has ended
JfifDone == caller = "Jfif" /\ pc = "done"

\* a loop over every marker of iter_markers has ended with the generator
IterDone == caller = "iter_markers" /\ pc = "done" /\ outcome.kind = "return"

C10_ReaderByWhatPathNames ==
    (pkg_pc \in {"init", "ready"} /\ IsString(pkg_file)) =>
        /\ IsDir(pkg_file) => reader.cls = "_DirPkgReader"
        /\ (~IsDir(pkg_file) /\ IsZipfile(pkg_file))
               => reader.cls = "_ZipPkgReader"

(***************************************************************************)
(* C11: PhysPkgReader(pkg_file) with a string that names neither a         *)
(* directory nor a zip file raises PackageNotFoundError and makes no       *)
(* reader; with bytes it makes an _XmlPkgReader; with anything that is     *)
(* neither a string nor bytes (a stream) it makes a _ZipPkgReader.         *)
(***************************************************************************)
C11_NotFoundBytesAndStream ==
    pkg_pc \in {"init", "ready", "failed"} =>
        /\ (pkg_file.type = "str" /\ pkg_file.names = "other") =>
               /\ pkg_pc = "failed"
               /\ pkg_result = PkgRaised("__new__", "", "PackageNotFoundError")
               /\ reader = NewObject("none")
        /\ pkg_file.type = "bytes" => reader.cls = "_XmlPkgReader"
        /\ pkg_file.type = "stream" => reader.cls = "_ZipPkgReader"

\* the path names nothing that is a package, and __new__ has raised
C11_Witness ==
    /\ pkg_file.type = "str"
    /\ pkg_file.names = "other"
    /\ pkg_pc = "failed"
    /\ pkg_result.error = "PackageNotFoundError"

\* the member names the package holds an item for: the members of the zip
\* archive, the pkg:name of the part elements of the XML package
Held ==
    IF pkg_file.type = "bytes"
      THEN {pkg_file.parts[i].name : i \in 1..Len(pkg_file.parts)}
      ELSE pkg_file.members

\* a call was made on a zip or XML reader that close() has not been called on
OpenZipOrXml ==
    /\ reader.cls \in {"_ZipPkgReader", "_XmlPkgReader"}
    /\ reader.zipf # "closed"

(***************************************************************************)
(* C12: blob_for(pack_uri) on a _ZipPkgReader or an _XmlPkgReader raises   *)
(* ValueError when the package holds no member matching pack_uri, and      *)
(* returns the member's blob when it does.                                 *)
(***************************************************************************)
C12_BlobForRaisesValueError ==
    (pkg_result.op = "blob_for" /\ OpenZipOrXml) =>
        IF pkg_result.arg \in Held
          THEN /\ pkg_result.kind = "return"
               /\ pkg_result.value.of = pkg_result.arg
          ELSE /\ pkg_result.kind = "raise"
               /\ pkg_result.error = "ValueError"

\* rels_xml_for has answered as the claim says: None when the package holds
\* no rels item for the source, the blob of the rels item when it does
RelsXmlAnswered ==
    IF RelsMembername(pkg_result.arg) \in Held
      THEN /\ pkg_result.kind = "return"
           /\ pkg_result.value # NoBlob
           /\ pkg_result.value.of = RelsMembername(pkg_result.arg)
      ELSE pkg_result = PkgReturned("rels_xml_for", pkg_result.arg, NoBlob)

\* C14 as it was stated, for every reader in every state: rels_xml_for
\* returns None and raises nothing when the package holds no rels item for
\* source_uri, and returns the blob of the rels item when it does.
C14_RelsXmlForNeverRaises ==
    pkg_result.op = "rels_xml_for" => RelsXmlAnswered

(***************************************************************************)
(* C14: rels_xml_for(source_uri) on a _DirPkgReader, on a _ZipPkgReader    *)
(* that close() has not been called on, and on an _XmlPkgReader returns    *)
(* None and raises nothing when the package holds no rels item for         *)
(* source_uri and returns the blob of the rels item when it does; on a     *)
(* closed _ZipPkgReader it raises ValueError. The call leaves the reader   *)
(* (its parts, its content types, its archive) as it was.                  *)
(***************************************************************************)
C14_RelsXmlForOnOpenReader ==
    /\ [](pkg_result.op = "rels_xml_for" =>
             IF reader.zipf = "closed"
               THEN pkg_result = PkgRaised("rels_xml_for", pkg_result.arg,
                                           "ValueError")
               ELSE RelsXmlAnswered)
    /\ [][pkg_result'.op = "rels_xml_for" => reader' = reader]_vars

\* an open zip reader was asked for the rels of a source that has none, and
\* returned None
C14_Witness ==
    /\ reader.cls = "_ZipPkgReader"
    /\ reader.zipf = "open"
    /\ pkg_result.op = "rels_xml_for"
    /\ RelsMembername(pkg_result.arg) \notin pkg_file.members
    /\ pkg_result.kind = "return"
    /\ pkg_result.value = NoBlob

\* the part element has exactly one xmlData child or exactly one binaryData
\* child
OneDataChild(e) == e.xmlData = 1 \/ e.binaryData = 1

(***************************************************************************)
(* C15: _XmlPkgReader.__init__ accepts a package only if every part        *)
(* element has exactly one xmlData child or, failing that, exactly one     *)
(* binaryData child. If some part element has neither, it raises           *)
(* ValueError and neither _parts nor _content_type_xml is set: no call is  *)
(* answered by a partly loaded reader afterwards.                          *)
(***************************************************************************)
C15_XmlInitAllOrNothing ==
    (pkg_file.type = "bytes" /\ pkg_pc \in {"ready", "failed"}) =>
        IF \A i \in 1..Len(pkg_file.parts) : OneDataChild(pkg_file.parts[i])
          THEN /\ pkg_pc = "ready"
               /\ reader.attrs_set
               /\ DOMAIN reader.parts = Held
               /\ Len(reader.content_types) = Len(pkg_file.parts)
               /\ \A n \in Held :
                      LET e == pkg_file.parts[reader.parts[n].index]
                      IN  /\ e.name = n
                          /\ reader.parts[n].child =
                                 IF e.xmlData = 1 THEN "xmlData" ELSE "binaryData"
          ELSE /\ pkg_pc = "failed"
               /\ pkg_result = PkgRaised("__init__", "", "ValueError")
               /\ reader = NewObject("_XmlPkgReader")

\* the first part element is well formed, the second has two xmlData
\* children and no binaryData child, and __init__ has raised
C15_Witness ==
    /\ pkg_file.type = "bytes"
    /\ Len(pkg_file.parts) = 2
    /\ OneDataChild(pkg_file.parts[1])
    /\ pkg_file.parts[2].xmlData = 2
    /\ pkg_file.parts[2].binaryData = 0
    /\ pkg_pc = "failed"
    /\ pkg_result.error = "ValueError"

\* the offsets of the segment body of a yielded marker
SegmentBody(m) == m.segment_offset..(m.segment_offset + m.segment_length - 1)

\* the offset the scan after the markers ms starts at
ScanStartAfter(ms) ==
    IF ms = <<>> THEN 0
    ELSE ms[Len(ms)].segment_offset + ms[Len(ms)].segment_length

NoScanAfterEoi ==
    \A i \in 1..Len(markers) :
        markers[i].marker_code = EOI =>
            /\ i = Len(markers)
            /\ scans = Len(markers)
            /\ pc \in {"resume", "iter_while", "collected", "done"}
            /\ \A off \in finder_reads : off < markers[i].segment_offset

\* how a loop over every marker ends: with the generator, EOI being the last
\* marker, or with the end-of-stream error
ExhaustedOrEndOfStream ==
    \/ /\ outcome = Returned(None, -1)
       /\ markers # <<>>
       /\ markers[Len(markers)].marker_code = EOI
    \/ outcome = Raised(UnexpectedEndOfStream)

====
